---- MODULE Spec2Model ----
(***************************************************************************)
(* World AI Agent System: the task orchestration core                      *)
(* (src/core/orchestrator.py, WorldOrchestrator) and the sliding-window    *)
(* hit counter (src/services/chatbot/rate_limit.py, TTLHits, with its      *)
(* caller src/services/chatbot/deps.py, check_rate_limit).                 *)
(*                                                                         *)
(* The orchestrator runs on one asyncio event loop: coroutines interleave  *)
(* only where an await really suspends (the agent call, the memory sink,   *)
(* asyncio.sleep).  A coroutine that stands between two statements of one  *)
(* such section is at an "exclusive" position: nothing else may step until *)
(* it has reached its next await.                                          *)
(***************************************************************************)
EXTENDS Integers, Sequences, FiniteSets, TLC

\* ------------------------------------------------------------------ bounds
MaxTasks == 2       \* Task objects created in one behaviour
MaxCallers == 1     \* execute_command calls that may be in flight together
MaxLoops == 2       \* _task_processing_loop coroutines created by start()
MaxTicks == 1       \* advances of the wall clock

MaxTtl == 1         \* TTLHits is constructed with ttl_seconds in 0..MaxTtl
MaxTime == 3        \* timestamps passed to TTLHits are in 0..MaxTime
MaxAdds == 3        \* add calls on one TTLHits in one behaviour
MaxAdvances == 2    \* advances of time.time() seen by check_rate_limit
MaxRequests == 62   \* check_rate_limit calls in one behaviour
MaxThreads == 2     \* threads calling TTLHits at the same time

\* ------------------------------------------------------- program constants
Retention == 3600   \* _cleanup_old_tasks: "1 hour ago"
RATE_LIMIT == 60    \* deps.py: req/min/IP
HitsTtl == 60       \* rate_limit.py: hits = TTLHits(ttl_seconds=60)

Callers == 1..MaxCallers
Loops == 1..MaxLoops

\* ------------------------------------------------------------- the router
\* A string is the sequence of its characters.
UpperCase ==
    <<"A", "B", "C", "D", "E", "F", "G", "H", "I", "J", "K", "L", "M",
      "N", "O", "P", "Q", "R", "S", "T", "U", "V", "W", "X", "Y", "Z">>
LowerCase ==
    <<"a", "b", "c", "d", "e", "f", "g", "h", "i", "j", "k", "l", "m",
      "n", "o", "p", "q", "r", "s", "t", "u", "v", "w", "x", "y", "z">>

\* str.lower() on one character.
Lower(ch) ==
    IF \E i \in 1..Len(UpperCase) : UpperCase[i] = ch
    THEN LowerCase[CHOOSE i \in 1..Len(UpperCase) : UpperCase[i] = ch]
    ELSE ch

\* task.description.lower()
ToLower(str) == [i \in 1..Len(str) |-> Lower(str[i])]

\* keyword in task_lower: the keyword is a substring.
Occurs(keyword, str) ==
    \E i \in 1..(Len(str) - Len(keyword) + 1) :
        SubSeq(str, i, i + Len(keyword) - 1) = keyword

CodingKeywords ==
    {<<"c", "o", "d", "e">>,
     <<"p", "r", "o", "g", "r", "a", "m">>,
     <<"s", "c", "r", "i", "p", "t">>,
     <<"b", "u", "i", "l", "d">>,
     <<"c", "r", "e", "a", "t", "e">>,
     <<"d", "e", "v", "e", "l", "o", "p">>}

DataKeywords ==
    {<<"s", "c", "r", "a", "p", "e">>,
     <<"d", "a", "t", "a">>,
     <<"c", "o", "l", "l", "e", "c", "t">>,
     <<"e", "x", "t", "r", "a", "c", "t">>,
     <<"a", "n", "a", "l", "y", "z", "e">>}

CommunicationKeywords ==
    {<<"c", "h", "a", "t">>,
     <<"m", "e", "s", "s", "a", "g", "e">>,
     <<"e", "m", "a", "i", "l">>,
     <<"c", "o", "m", "m", "u", "n", "i", "c", "a", "t", "e">>}

BusinessKeywords ==
    {<<"s", "a", "l", "e", "s">>,
     <<"l", "e", "a", "d">>,
     <<"b", "u", "s", "i", "n", "e", "s", "s">>,
     <<"m", "a", "r", "k", "e", "t", "i", "n", "g">>}

AnalyticsKeywords ==
    {<<"r", "e", "p", "o", "r", "t">>,
     <<"a", "n", "a", "l", "y", "t", "i", "c", "s">>,
     <<"i", "n", "s", "i", "g", "h", "t", "s">>,
     <<"m", "e", "t", "r", "i", "c", "s">>}

AgentNames ==
    {"coding", "data", "communication", "business", "analytics", "orchestrator"}

\* any(keyword in task_lower for keyword in [...])
HasKeyword(task_lower, keywords) == \E keyword \in keywords : Occurs(keyword, task_lower)

\* A router that tries the business keywords before the data keywords.
SelectBusinessFirst(description) ==
    LET task_lower == ToLower(description)
    IN  IF HasKeyword(task_lower, CodingKeywords) THEN "coding"
        ELSE IF HasKeyword(task_lower, BusinessKeywords) THEN "business"
        ELSE IF HasKeyword(task_lower, DataKeywords) THEN "data"
        ELSE IF HasKeyword(task_lower, CommunicationKeywords) THEN "communication"
        ELSE IF HasKeyword(task_lower, AnalyticsKeywords) THEN "analytics"
        ELSE "orchestrator"

\* _select_agent: first match in a fixed order, 'orchestrator' otherwise.
SelectAgent(description) ==
    LET task_lower == ToLower(description)
    IN  IF HasKeyword(task_lower, CodingKeywords) THEN "coding"
        ELSE IF HasKeyword(task_lower, DataKeywords) THEN "data"
        ELSE IF HasKeyword(task_lower, CommunicationKeywords) THEN "communication"
        ELSE IF HasKeyword(task_lower, BusinessKeywords) THEN "business"
        ELSE IF HasKeyword(task_lower, AnalyticsKeywords) THEN "analytics"
        ELSE "orchestrator"

\* The descriptions submitted in the model: "CREATE project demo", "hello".
CreateProjectDemo == <<"C", "R", "E", "A", "T", "E", " ", "p", "r", "o", "j", "e", "c", "t", " ", "d", "e", "m", "o">>
Hello == <<"h", "e", "l", "l", "o">>
Descriptions == {CreateProjectDemo, Hello}

\* The descriptions the router is tried on: one keyword of each agent, two
\* agents' keywords in one description, a keyword inside a longer word, upper
\* case, no keyword, the empty description.
RouteDescriptions ==
    {<<"C", "R", "E", "A", "T", "E", " ", "p", "r", "o", "j", "e", "c", "t", " ", "d", "e", "m", "o">>,
     <<"h", "e", "l", "l", "o">>,
     <<>>,
     <<"E", "m", "a", "i", "l", " ", "t", "h", "e", " ", "s", "a", "l", "e", "s", " ", "l", "e", "a", "d">>,
     <<"s", "a", "l", "e", "s", " ", "d", "a", "t", "a">>,
     <<"m", "e", "t", "r", "i", "c", "s", " ", "o", "f", " ", "t", "h", "e", " ", "c", "h", "a", "t">>,
     <<"d", "e", "c", "o", "d", "e", "d">>,
     <<"M", "a", "r", "k", "e", "t", "i", "n", "g", " ", "R", "e", "p", "o", "r", "t">>,
     <<"i", "n", "s", "i", "g", "h", "t", "s">>,
     <<"l", "e", "a", "d", "e", "r">>,
     <<"B", "U", "I", "L", "D", " ", "e", "m", "a", "i", "l", " ", "r", "e", "p", "o", "r", "t">>,
     <<"c", "r", "e", "a", "t", " ", "r", "e", "p", "o", "r">>}

\* The agents maps the orchestrator is constructed with.
AgentMaps == {AgentNames \ {"orchestrator"}}

\* What an agent's process_task returns, and the messages of what it raises.
AgentValues == {"done"}
AgentErrors == {"boom"}
SinkErrors == {"sink failed"}

\* ------------------------------------------------------------------ state
VARIABLES
    tasks,      \* self.tasks: the list of Task objects (by object identity)
    obj,        \* the Task objects ever created: identity -> fields
    running,    \* self.running
    agents,     \* keys of self.agents
    memory,     \* whether services['memory'] is configured
    calls,      \* execute_command coroutines: caller -> [pc, task, result, ret]
    loops,      \* _task_processing_loop coroutines: loop -> [pc, snap, idx, order]
    clock,      \* datetime.now().timestamp()
    ticks,      \* number of clock advances so far
    event,      \* what the last step did: an agent or sink outcome, or "none"
    stopped     \* stop() has been called and start() has not been called since

orchVars ==
    <<tasks, obj, running, agents, memory, calls, loops, clock, ticks, event, stopped>>

VARIABLES
    ttl,        \* TTLHits.ttl
    data,       \* TTLHits.data: key -> hits, oldest first; no entry: no key
    call,       \* the last call on TTLHits: [op, key, now, ret]
    recorded,   \* every hit add has recorded so far: [key, t], in call order
    latest,     \* per key, the largest timestamp passed to a call so far
    wall,       \* time.time()
    advances,   \* number of advances of time.time() so far
    admitted    \* the timestamps of the requests check_rate_limit let pass

hitsVars == <<ttl, data, call, recorded, latest, wall, advances, admitted>>

VARIABLES
    cdata,      \* TTLHits.data under threads: key -> deque object
    heap,       \* the deque objects: identity -> hits
    threads     \* the calls in progress: thread -> [op, key, now, pc, dq, ret]

concVars == <<cdata, heap, threads>>

VARIABLES
    fs,         \* the project directories: project name -> top-level entries
    out         \* what the last _create_project returned

codeVars == <<fs, out>>

vars == <<orchVars, hitsVars, concVars, codeVars>>

NoResult == [kind |-> "none", v |-> ""]
Value(v) == [kind |-> "value", v |-> v]
Error(m) == [kind |-> "error", v |-> m]

\* Task(...) of execute_command: status "pending", no agent, no result.
NewTask(description, now) ==
    [id |-> now, description |-> description, status |-> "pending",
     created_at |-> now, assigned_agent |-> "", result |-> NoResult]

Oids == DOMAIN obj
NextOid == Cardinality(Oids) + 1

NoReturn == [success |-> FALSE, kind |-> "none", v |-> "", task |-> 0]
Success(o, v) == [success |-> TRUE, kind |-> "value", v |-> v, task |-> o]
Failure(m) == [success |-> FALSE, kind |-> "error", v |-> m, task |-> 0]

IdleCall == [pc |-> "idle", task |-> 0, result |-> "", ret |-> NoReturn]
\* order: the Tasks whose agent the loop has invoked, in invocation order.
NoLoop == [pc |-> "none", snap |-> <<>>, idx |-> 0, order |-> <<>>]

\* Positions between two statements of one await-free section.
ExclusivePcs == {"created", "assigned", "iter"}

OthersSuspended(kind, n) ==
    /\ \A c \in Callers : (kind = "call" /\ c = n) \/ calls[c].pc \notin ExclusivePcs
    /\ \A l \in Loops : (kind = "loop" /\ l = n) \/ loops[l].pc \notin ExclusivePcs

AllSuspended == OthersSuspended("none", 0)

\* ------------------------------------------------- helpers of the handlers
Last(s) == s[Len(s)]

\* counts: the counts a get_system_status call returned.
NoCounts == [total |-> 0, pending |-> 0, processing |-> 0, completed |-> 0, failed |-> 0]

NoEvent == [ev |-> "none", kind |-> "", n |-> 0, task |-> 0, v |-> "", counts |-> NoCounts]

Event(ev, kind, n, o, v) ==
    [ev |-> ev, kind |-> kind, n |-> n, task |-> o, v |-> v, counts |-> NoCounts]

\* __init__ with the agents map a and, if m, a memory service.
InitOrchWith(a, m) ==
    /\ tasks = <<>>
    /\ obj = <<>>
    /\ running = FALSE
    /\ agents = a
    /\ memory = m
    /\ calls = [c \in Callers |-> IdleCall]
    /\ loops = [l \in Loops |-> NoLoop]
    /\ clock = 0
    /\ ticks = 0
    /\ event = NoEvent
    /\ stopped = FALSE

\* An assignment that records the agent but leaves the status as it is.
AssignAgentOnly(objs, o, name) ==
    [objs EXCEPT ![o].assigned_agent = name]

\* _process_task, lines 94-95: task.assigned_agent = agent_name; status.
Assign(objs, o, name) ==
    [objs EXCEPT ![o].assigned_agent = name, ![o].status = "processing"]

\* _process_task, lines 106-107: task.status = "completed"; task.result.
Complete(objs, o, v) ==
    [objs EXCEPT ![o].status = "completed", ![o].result = Value(v)]

\* A handler that marks the Task failed but stores no error record.
FailWithoutResult(objs, o, m) ==
    [objs EXCEPT ![o].status = "failed"]

\* _process_task, lines 121-124: the except clause (then re-raises).
Fail(objs, o, m) ==
    [objs EXCEPT ![o].status = "failed", ![o].result = Error(m)]

\* _process_task, lines 88-95: select the agent, refuse an empty name,
\* assign.  The result is the new objects and whether ValueError was raised.
ProcessSelect(objs, o) ==
    LET name == SelectAgent(objs[o].description)
    IN  IF name = ""
        THEN [objs |-> Fail(objs, o, "No suitable agent found"), raised |-> TRUE]
        ELSE [objs |-> Assign(objs, o, name), raised |-> FALSE]

RECURSIVE Reverse(_)
Reverse(s) == IF s = <<>> THEN <<>> ELSE Append(Reverse(Tail(s)), Head(s))

\* A snapshot that lists the newest pending task first.
PendingNewestFirst(list, objs) ==
    Reverse(SelectSeq(list, LAMBDA o : objs[o].status = "pending"))

\* A snapshot that filters on the wrong status.
PendingWrongStatus(list, objs) ==
    SelectSeq(list, LAMBDA o : objs[o].status = "processing")

\* _task_processing_loop, line 150: the pending tasks, in list order.
PendingTasks(list, objs) ==
    SelectSeq(list, LAMBDA o : objs[o].status = "pending")

\* _cleanup_old_tasks, lines 167-173.
CleanupOldTasks(list, objs, now) ==
    LET cutoff_time == now - Retention
    IN  SelectSeq(list, LAMBDA o :
            objs[o].created_at > cutoff_time \/ objs[o].status = "processing")

\* An execute_command without its except clause: the exception escapes.
CommandRaised(frame, m) ==
    [frame EXCEPT !.pc = "done", !.ret = [success |-> FALSE, kind |-> "raised", v |-> m, task |-> 0]]

\* execute_command, lines 69-74 and 76-82: what the caller gets back.
CommandSucceeded(frame, v) ==
    [frame EXCEPT !.pc = "done", !.ret = Success(frame.task, v)]

CommandFailed(frame, m) ==
    [frame EXCEPT !.pc = "done", !.ret = Failure(m)]

\* A loop without the inner try: the exception of one task ends the loop.
LoopEscaped(frame) ==
    [frame EXCEPT !.pc = "dead"]

\* _task_processing_loop, lines 153-156: the exception of one task is
\* logged and the for loop goes on with the next task.
LoopCaught(frame) ==
    [frame EXCEPT !.pc = "iter", !.idx = @ + 1]

\* _task_processing_loop, lines 152-154: the task returned, next task.
LoopAdvance(frame) ==
    [frame EXCEPT !.pc = "iter", !.idx = @ + 1]

Log(e) == event' = e

\* ------------------------------------------------ start, stop, submission
\* start(): sets the flag and creates one more loop coroutine.
Start ==
    /\ AllSuspended
    /\ \E l \in Loops :
        /\ loops[l].pc = "none"
        /\ \A k \in Loops : k < l => loops[k].pc # "none"
        /\ loops' = [loops EXCEPT ![l] = [pc |-> "sleep", snap |-> <<>>, idx |-> 0, order |-> <<>>]]
    /\ running' = TRUE
    /\ stopped' = FALSE
    /\ UNCHANGED <<tasks, obj, agents, memory, calls, clock, ticks>>
    /\ event' = NoEvent
    /\ UNCHANGED <<hitsVars, concVars, codeVars>>

\* A stop() that flips the flag instead of clearing it.
ToggleRunning(r) == ~r

\* stop(), line 48: self.running = False
AfterStop(r) == FALSE

\* A stop() that also fails the tasks still pending.
StopFailingPending ==
    /\ AllSuspended
    /\ running' = FALSE
    /\ stopped' = TRUE
    /\ obj' = [o \in DOMAIN obj |->
                  IF obj[o].status = "pending"
                  THEN [obj[o] EXCEPT !.status = "failed", !.result = Error("stopped")]
                  ELSE obj[o]]
    /\ UNCHANGED <<tasks, agents, memory, calls, loops, clock, ticks>>
    /\ event' = Event("stop", "", IF stopped THEN 2 ELSE 1, 0, "")
    /\ UNCHANGED <<hitsVars, concVars, codeVars>>

\* stop(): clears the flag and returns.  The event tells a first stop (1)
\* from a stop that follows a stop with no start() in between (2).
Stop ==
    /\ AllSuspended
    /\ running' = AfterStop(running)
    /\ stopped' = TRUE
    /\ UNCHANGED <<tasks, obj, agents, memory, calls, loops, clock, ticks>>
    /\ event' = Event("stop", "", IF stopped THEN 2 ELSE 1, 0, "")
    /\ UNCHANGED <<hitsVars, concVars, codeVars>>

\* Submit(description): the queued submission of the specification; it
\* creates a pending Task with an identifier of its own, appends it and
\* returns; after shutdown has begun it fails and changes nothing.
Submit(d) ==
    /\ AllSuspended
    /\ ~stopped
    /\ Len(obj) < MaxTasks
    /\ obj' = Append(obj, [NewTask(d, clock) EXCEPT !.id = 0 - NextOid])
    /\ tasks' = Append(tasks, NextOid)
    /\ UNCHANGED <<running, agents, memory, calls, loops, clock, ticks>>
    /\ event' = NoEvent
    /\ UNCHANGED <<stopped, hitsVars, concVars, codeVars>>

\* The wall clock advances (by the retention period of the cleanup).
Tick ==
    /\ AllSuspended
    /\ ticks < MaxTicks
    /\ clock' = clock + Retention
    /\ ticks' = ticks + 1
    /\ UNCHANGED <<tasks, obj, running, agents, memory, calls, loops>>
    /\ event' = NoEvent
    /\ UNCHANGED <<stopped, hitsVars, concVars, codeVars>>

\* ------------------------------------------------------ get_system_status
CountStatus(list, objs, st) == Len(SelectSeq(list, LAMBDA o : objs[o].status = st))

\* A status report whose total counts every Task ever created.
StatusOfAllCreated(list, objs) ==
    [total |-> Len(objs),
     pending |-> CountStatus(list, objs, "pending"),
     processing |-> CountStatus(list, objs, "processing"),
     completed |-> CountStatus(list, objs, "completed"),
     failed |-> CountStatus(list, objs, "failed")]

\* get_system_status, lines 180-186: the "tasks" part of the report.
GetSystemStatus(list, objs) ==
    [total |-> Len(list),
     pending |-> CountStatus(list, objs, "pending"),
     processing |-> CountStatus(list, objs, "processing"),
     completed |-> CountStatus(list, objs, "completed"),
     failed |-> CountStatus(list, objs, "failed")]

\* A call of get_system_status (it has no await); the event holds the
\* returned counts.
Status ==
    /\ AllSuspended
    /\ event' = [Event("status", "", 0, 0, "") EXCEPT !.counts = GetSystemStatus(tasks, obj)]
    /\ UNCHANGED <<tasks, obj, running, agents, memory, calls, loops, clock, ticks>>
    /\ UNCHANGED <<stopped, hitsVars, concVars, codeVars>>

\* -------------------------------------------------------- execute_command
\* Lines 55-64: create the Task and append it to self.tasks.
ExecuteCommand(c, d) ==
    /\ AllSuspended
    /\ calls[c].pc \in {"idle", "done"}
    /\ Len(obj) < MaxTasks
    /\ obj' = Append(obj, NewTask(d, clock))
    /\ tasks' = Append(tasks, NextOid)
    /\ calls' = [calls EXCEPT ![c] = [pc |-> "created", task |-> NextOid, result |-> "", ret |-> NoReturn]]
    /\ UNCHANGED <<running, agents, memory, loops, clock, ticks>>
    /\ event' = NoEvent
    /\ UNCHANGED <<stopped, hitsVars, concVars, codeVars>>

\* Line 67 into _process_task, lines 88-95.
CallSelect(c) ==
    /\ calls[c].pc = "created"
    /\ LET o == calls[c].task
           r == ProcessSelect(obj, o)
       IN  /\ obj' = r.objs
           /\ calls' = [calls EXCEPT ![c] =
                  IF r.raised THEN CommandFailed(@, "No suitable agent found")
                  ELSE [@ EXCEPT !.pc = "assigned"]]
           /\ IF r.raised
              THEN Log(Event("noagent", "call", c, o, "No suitable agent found"))
              ELSE event' = NoEvent
    /\ UNCHANGED <<tasks, running, agents, memory, loops, clock, ticks>>
    /\ UNCHANGED <<stopped, hitsVars, concVars, codeVars>>

\* Lines 98-103: look the agent up; call it, or raise "not found".
CallLookup(c) ==
    /\ calls[c].pc = "assigned"
    /\ LET o == calls[c].task
       IN  IF obj[o].assigned_agent \notin agents
           THEN /\ obj' = Fail(obj, o, "Agent not found")
                /\ calls' = [calls EXCEPT ![c] = CommandFailed(@, "Agent not found")]
                /\ Log(Event("noagent", "call", c, o, "Agent not found"))
           ELSE /\ calls' = [calls EXCEPT ![c].pc = "agent"]
                /\ Log(Event("start", "call", c, o, ""))
                /\ UNCHANGED obj
    /\ UNCHANGED <<tasks, running, agents, memory, loops, clock, ticks>>
    /\ UNCHANGED <<stopped, hitsVars, concVars, codeVars>>

\* Line 103 returns v; lines 106-107; then the sink (110) or the return.
CallAgentReturns(c, v) ==
    /\ OthersSuspended("call", c)
    /\ calls[c].pc = "agent"
    /\ LET o == calls[c].task
       IN  /\ obj' = Complete(obj, o, v)
           /\ calls' = [calls EXCEPT ![c] =
                  IF memory THEN [@ EXCEPT !.pc = "sink", !.result = v]
                  ELSE CommandSucceeded(@, v)]
           /\ Log(Event("return", "call", c, o, v))
    /\ UNCHANGED <<tasks, running, agents, memory, loops, clock, ticks>>
    /\ UNCHANGED <<stopped, hitsVars, concVars, codeVars>>

\* Line 103 raises: lines 121-124, then execute_command's except clause.
CallAgentRaises(c, m) ==
    /\ OthersSuspended("call", c)
    /\ calls[c].pc = "agent"
    /\ LET o == calls[c].task
       IN  /\ obj' = Fail(obj, o, m)
           /\ calls' = [calls EXCEPT ![c] = CommandFailed(@, m)]
           /\ Log(Event("raise", "call", c, o, m))
    /\ UNCHANGED <<tasks, running, agents, memory, loops, clock, ticks>>
    /\ UNCHANGED <<stopped, hitsVars, concVars, codeVars>>

\* store_experience returns: line 119, then lines 69-74.
CallSinkReturns(c) ==
    /\ OthersSuspended("call", c)
    /\ calls[c].pc = "sink"
    /\ calls' = [calls EXCEPT ![c] = CommandSucceeded(@, @.result)]
    /\ Log(Event("stored", "call", c, calls[c].task, ""))
    /\ UNCHANGED <<tasks, obj, running, agents, memory, loops, clock, ticks>>
    /\ UNCHANGED <<stopped, hitsVars, concVars, codeVars>>

\* store_experience raises inside the try of _process_task: lines 121-124.
CallSinkRaises(c, m) ==
    /\ OthersSuspended("call", c)
    /\ calls[c].pc = "sink"
    /\ obj' = Fail(obj, calls[c].task, m)
    /\ calls' = [calls EXCEPT ![c] = CommandFailed(@, m)]
    /\ Log(Event("sinkraise", "call", c, calls[c].task, m))
    /\ UNCHANGED <<tasks, running, agents, memory, loops, clock, ticks>>
    /\ UNCHANGED <<stopped, hitsVars, concVars, codeVars>>

\* -------------------------------------------------- _task_processing_loop
\* A loop whose condition does not read the flag.
KeepsRunningAlways(r) == TRUE

\* Line 147: while self.running
KeepsRunning(r) == r

\* Line 147 after the coroutine is scheduled or wakes from its sleep:
\* leave when the flag is clear, else take the snapshot of line 150.
LoopWake(l) ==
    /\ AllSuspended
    /\ loops[l].pc = "sleep"
    /\ loops' = [loops EXCEPT ![l] =
           IF KeepsRunning(running)
           THEN [@ EXCEPT !.pc = "iter", !.snap = PendingTasks(tasks, obj), !.idx = 1]
           ELSE [@ EXCEPT !.pc = "dead"]]
    /\ event' = IF KeepsRunning(running) THEN NoEvent ELSE Event("exit", "loop", l, 0, "")
    /\ UNCHANGED <<tasks, obj, running, agents, memory, calls, clock, ticks>>
    /\ UNCHANGED <<stopped, hitsVars, concVars, codeVars>>

\* Line 152: the next task of the snapshot enters _process_task (88-95);
\* after the last one, lines 159-161: clean up and sleep.
LoopIter(l) ==
    /\ loops[l].pc = "iter"
    /\ IF loops[l].idx > Len(loops[l].snap)
       THEN /\ tasks' = CleanupOldTasks(tasks, obj, clock)
            /\ loops' = [loops EXCEPT ![l].pc = "sleep", ![l].snap = <<>>, ![l].idx = 0]
            /\ event' = NoEvent /\ UNCHANGED obj
       ELSE LET o == loops[l].snap[loops[l].idx]
                r == ProcessSelect(obj, o)
            IN  /\ obj' = r.objs
                /\ loops' = [loops EXCEPT ![l] =
                       IF r.raised THEN LoopCaught(@)
                       ELSE [@ EXCEPT !.pc = "assigned"]]
                /\ IF r.raised
                   THEN Log(Event("noagent", "loop", l, o, "No suitable agent found"))
                   ELSE event' = NoEvent
                /\ UNCHANGED tasks
    /\ UNCHANGED <<running, agents, memory, calls, clock, ticks>>
    /\ UNCHANGED <<stopped, hitsVars, concVars, codeVars>>

LoopTask(l) == loops[l].snap[loops[l].idx]

\* Lines 98-103 in the loop.
LoopLookup(l) ==
    /\ loops[l].pc = "assigned"
    /\ LET o == LoopTask(l)
       IN  IF obj[o].assigned_agent \notin agents
           THEN /\ obj' = Fail(obj, o, "Agent not found")
                /\ loops' = [loops EXCEPT ![l] = LoopCaught(@)]
                /\ Log(Event("noagent", "loop", l, o, "Agent not found"))
           ELSE /\ loops' = [loops EXCEPT ![l].pc = "agent", ![l].order = Append(@, o)]
                /\ Log(Event("start", "loop", l, o, ""))
                /\ UNCHANGED obj
    /\ UNCHANGED <<tasks, running, agents, memory, calls, clock, ticks>>
    /\ UNCHANGED <<stopped, hitsVars, concVars, codeVars>>

LoopAgentReturns(l, v) ==
    /\ OthersSuspended("loop", l)
    /\ loops[l].pc = "agent"
    /\ obj' = Complete(obj, LoopTask(l), v)
    /\ loops' = [loops EXCEPT ![l] =
           IF memory THEN [@ EXCEPT !.pc = "sink"] ELSE LoopAdvance(@)]
    /\ Log(Event("return", "loop", l, LoopTask(l), v))
    /\ UNCHANGED <<tasks, running, agents, memory, calls, clock, ticks>>
    /\ UNCHANGED <<stopped, hitsVars, concVars, codeVars>>

LoopAgentRaises(l, m) ==
    /\ OthersSuspended("loop", l)
    /\ loops[l].pc = "agent"
    /\ obj' = Fail(obj, LoopTask(l), m)
    /\ loops' = [loops EXCEPT ![l] = LoopCaught(@)]
    /\ Log(Event("raise", "loop", l, LoopTask(l), m))
    /\ UNCHANGED <<tasks, running, agents, memory, calls, clock, ticks>>
    /\ UNCHANGED <<stopped, hitsVars, concVars, codeVars>>

LoopSinkReturns(l) ==
    /\ OthersSuspended("loop", l)
    /\ loops[l].pc = "sink"
    /\ loops' = [loops EXCEPT ![l] = LoopAdvance(@)]
    /\ Log(Event("stored", "loop", l, LoopTask(l), ""))
    /\ UNCHANGED <<tasks, obj, running, agents, memory, calls, clock, ticks>>
    /\ UNCHANGED <<stopped, hitsVars, concVars, codeVars>>

LoopSinkRaises(l, m) ==
    /\ OthersSuspended("loop", l)
    /\ loops[l].pc = "sink"
    /\ obj' = Fail(obj, LoopTask(l), m)
    /\ loops' = [loops EXCEPT ![l] = LoopCaught(@)]
    /\ Log(Event("sinkraise", "loop", l, LoopTask(l), m))
    /\ UNCHANGED <<tasks, running, agents, memory, calls, clock, ticks>>
    /\ UNCHANGED <<stopped, hitsVars, concVars, codeVars>>

\* ================================================================ TTLHits
Keys == {"k1", "k2"}
Times == 0..MaxTime

NoKeys == [k \in {} |-> <<>>]
\* before: the number of hits stored for the key when the call began.
NoCall == [op |-> "none", key |-> "", now |-> 0, ret |-> 0, status |-> 0, before |-> 0]

\* dict operations on the storage map.
Bind(d, key, dq) == [k \in DOMAIN d \cup {key} |-> IF k = key THEN dq ELSE d[k]]
Remove(d, key) == [k \in DOMAIN d \ {key} |-> d[k]]
\* self.data.get(key, ())
Get(d, key) == IF key \in DOMAIN d THEN d[key] ELSE <<>>

\* A prefix trim that also drops a hit exactly ttl old.
RECURSIVE PopThroughCutoff(_, _)
PopThroughCutoff(dq, cutoff) ==
    IF dq # <<>> /\ Head(dq) <= cutoff THEN PopThroughCutoff(Tail(dq), cutoff) ELSE dq

\* _prune, lines 27-28: while dq and dq[0] < cutoff: dq.popleft()
RECURSIVE PopExpired(_, _)
PopExpired(dq, cutoff) ==
    IF dq # <<>> /\ Head(dq) < cutoff THEN PopExpired(Tail(dq), cutoff) ELSE dq

\* A _prune that leaves the emptied bucket in the map.
PruneKeepingKey(d, key, now, t) ==
    IF Get(d, key) = <<>> THEN d
    ELSE [d EXCEPT ![key] = PopExpired(@, now - t)]

\* A _prune that trims the deque of every key at the cutoff.
PruneEveryKey(d, key, now, t) ==
    LET trimmed == [k \in DOMAIN d |-> PopExpired(d[k], now - t)]
    IN  [k \in {j \in DOMAIN d : trimmed[j] # <<>>} |-> trimmed[k]]

\* _prune, lines 22-30, on the storage map d with ttl t.
PruneF(d, key, now, t) ==
    LET cutoff == now - t
        dq == Get(d, key)
    IN  IF dq = <<>> THEN d
        ELSE LET rest == PopExpired(dq, cutoff)
             IN  IF rest = <<>> THEN Remove(d, key) ELSE [d EXCEPT ![key] = rest]

\* An add that stores the hit only while the bucket holds fewer than
\* RATE_LIMIT live hits, and returns the count the hit would have made.
AddUnlessFull(d, key, now, t) ==
    LET live == PopExpired(Get(d, key), now - t)
        dq == IF Len(live) < RATE_LIMIT THEN Append(Get(d, key), now) ELSE Get(d, key)
        d2 == IF dq = <<>> THEN d ELSE PruneF(Bind(d, key, dq), key, now, t)
    IN  [data |-> d2, ret |-> Len(live) + 1]

\* add, lines 10-15: the new map and the returned len(dq); dq is the deque
\* looked up (or created) at line 12, also after _prune dropped the key.
AddF(d, key, now, t) ==
    LET dq == Append(Get(d, key), now)
        d2 == PruneF(Bind(d, key, dq), key, now, t)
    IN  [data |-> d2, ret |-> Len(PopExpired(dq, now - t))]

\* A count that looks the key up with self.data[key], which creates the
\* bucket of an absent key.
CountCreatingBucket(d, key, now, t) ==
    LET d1 == IF key \in DOMAIN d THEN d ELSE Bind(d, key, <<>>)
        d2 == IF d1[key] = <<>> THEN d1 ELSE PruneF(d1, key, now, t)
    IN  [data |-> d2, ret |-> Len(Get(d2, key))]

\* count, lines 17-20.
CountF(d, key, now, t) ==
    LET d2 == PruneF(d, key, now, t)
    IN  [data |-> d2, ret |-> Len(Get(d2, key))]

InitHits(t) ==
    /\ ttl = t
    /\ data = NoKeys
    /\ call = NoCall
    /\ recorded = <<>>
    /\ latest = [k \in Keys |-> 0]
    /\ wall = 0
    /\ advances = 0
    /\ admitted = <<>>

\* add(key, ts=now)
Add(key, now) ==
    /\ Len(recorded) < MaxAdds
    /\ LET r == AddF(data, key, now, ttl)
       IN  /\ data' = r.data
           /\ call' = [op |-> "add", key |-> key, now |-> now, ret |-> r.ret, status |-> 0,
                     before |-> Len(Get(data, key))]
    /\ recorded' = Append(recorded, [key |-> key, t |-> now])
    /\ UNCHANGED <<ttl, wall, advances, admitted>>
    /\ UNCHANGED <<orchVars, concVars, codeVars>>

\* count(key, ts=now)
Count(key, now) ==
    /\ LET r == CountF(data, key, now, ttl)
       IN  /\ data' = r.data
           /\ call' = [op |-> "count", key |-> key, now |-> now, ret |-> r.ret, status |-> 0,
                     before |-> Len(Get(data, key))]
    /\ UNCHANGED <<ttl, recorded, wall, advances, admitted>>
    /\ UNCHANGED <<orchVars, concVars, codeVars>>

\* _prune(key, now), called directly as the test does.
Prune(key, now) ==
    /\ data' = PruneF(data, key, now, ttl)
    /\ call' = [op |-> "prune", key |-> key, now |-> now, ret |-> 0, status |-> 0,
                before |-> Len(Get(data, key))]
    /\ UNCHANGED <<ttl, recorded, wall, advances, admitted>>
    /\ UNCHANGED <<orchVars, concVars, codeVars>>

\* Calls with arbitrary timestamp arguments.
NextHits ==
    \/ \E key \in Keys, now \in Times : Add(key, now) /\ UNCHANGED latest
    \/ \E key \in Keys, now \in Times : Count(key, now) /\ UNCHANGED latest
    \/ \E key \in Keys, now \in Times : Prune(key, now) /\ UNCHANGED latest

\* The caller's timestamps never decrease on a key.
Later(key, now) ==
    /\ now >= latest[key]
    /\ latest' = [latest EXCEPT ![key] = now]

NextHitsMono ==
    \/ \E key \in Keys, now \in Times : Later(key, now) /\ Add(key, now)
    \/ \E key \in Keys, now \in Times : Later(key, now) /\ Count(key, now)
    \/ \E key \in Keys, now \in Times : Later(key, now) /\ Prune(key, now)

\* ------------------------------------------------------- check_rate_limit
Clients == {"k1"}

\* A boundary that already rejects the request that reaches the limit.
RejectsAtLimit(count) == count >= RATE_LIMIT

\* deps.py, line 8: hits.add(ip) > RATE_LIMIT
Rejects(count) == count > RATE_LIMIT

\* check_rate_limit(ip): one add at time.time(), then 429 or pass.
CheckRateLimit(ip) ==
    /\ Len(recorded) < MaxRequests
    /\ LET r == AddF(data, ip, wall, ttl)
           status == IF Rejects(r.ret) THEN 429 ELSE 200
       IN  /\ data' = r.data
           /\ call' = [op |-> "check", key |-> ip, now |-> wall, ret |-> r.ret, status |-> status,
                     before |-> Len(Get(data, ip))]
           /\ admitted' = IF status = 429 THEN admitted
                          ELSE Append(admitted, [key |-> ip, t |-> wall])
    /\ recorded' = Append(recorded, [key |-> ip, t |-> wall])
    /\ UNCHANGED <<ttl, latest, wall, advances>>
    /\ UNCHANGED <<orchVars, concVars, codeVars>>

\* time.time() advances.
Advance(d) ==
    /\ advances < MaxAdvances
    /\ wall' = wall + d
    /\ advances' = advances + 1
    /\ UNCHANGED <<ttl, data, call, recorded, latest, admitted>>
    /\ UNCHANGED <<orchVars, concVars, codeVars>>

NextRate ==
    \/ \E ip \in Clients : CheckRateLimit(ip)
    \/ \E d \in {1, HitsTtl} : Advance(d)

\* ---------------------------------------------- TTLHits called by threads
\* check_rate_limit is a synchronous dependency, which the server runs on
\* worker threads; one step is one access to the shared map or to a deque.
Threads == 1..MaxThreads
ConcTimes == {1, 3}
ConcKey == "k1"
\* The storage the threads start from: one earlier hit of the key, at 0.
ConcStart == [k \in {ConcKey} |-> <<0>>]
Raised == -1

IdleThread == [op |-> "none", now |-> 0, pc |-> "idle", dq |-> 0, pdq |-> 0, ret |-> 0]

InitConcIdle ==
    /\ cdata = NoKeys
    /\ heap = <<>>
    /\ threads = [t \in Threads |-> IdleThread]

InitConc ==
    /\ cdata = [k \in {ConcKey} |-> 1]
    /\ heap = <<ConcStart[ConcKey]>>
    /\ threads = [t \in Threads |-> IdleThread]

\* A thread enters add(key, now) or count(key, now).
Begin(t, op, now) ==
    /\ threads[t].pc = "idle"
    /\ threads' = [threads EXCEPT ![t] =
           [@ EXCEPT !.op = op, !.now = now,
                     !.pc = IF op = "add" THEN "lookup" ELSE "prune"]]
    /\ UNCHANGED <<cdata, heap>>
    /\ UNCHANGED <<orchVars, hitsVars, codeVars>>

\* add, line 12: dq = self.data[key] (the defaultdict creates the deque).
AddLookup(t) ==
    /\ threads[t].pc = "lookup"
    /\ IF ConcKey \in DOMAIN cdata
       THEN /\ threads' = [threads EXCEPT ![t].dq = cdata[ConcKey], ![t].pc = "append"]
            /\ UNCHANGED <<cdata, heap>>
       ELSE /\ heap' = Append(heap, <<>>)
            /\ cdata' = Bind(cdata, ConcKey, Len(heap) + 1)
            /\ threads' = [threads EXCEPT ![t].dq = Len(heap) + 1, ![t].pc = "append"]
    /\ UNCHANGED <<orchVars, hitsVars, codeVars>>

\* add, line 13: dq.append(now)
AddAppend(t) ==
    /\ threads[t].pc = "append"
    /\ heap' = [heap EXCEPT ![threads[t].dq] = Append(@, threads[t].now)]
    /\ threads' = [threads EXCEPT ![t].pc = "prune"]
    /\ UNCHANGED cdata
    /\ UNCHANGED <<orchVars, hitsVars, codeVars>>

\* _prune, line 24: dq = self.data.get(key)
PruneGet(t) ==
    /\ threads[t].pc = "prune"
    /\ threads' = [threads EXCEPT
           ![t].pdq = IF ConcKey \in DOMAIN cdata THEN cdata[ConcKey] ELSE 0,
           ![t].pc = "test"]
    /\ UNCHANGED <<cdata, heap>>
    /\ UNCHANGED <<orchVars, hitsVars, codeVars>>

Empty(b) == b = 0 \/ heap[b] = <<>>

\* _prune, lines 25-26: if not dq: return
PruneTest(t) ==
    /\ threads[t].pc = "test"
    /\ threads' = [threads EXCEPT ![t].pc = IF Empty(threads[t].pdq) THEN "len" ELSE "while"]
    /\ UNCHANGED <<cdata, heap>>
    /\ UNCHANGED <<orchVars, hitsVars, codeVars>>

\* _prune, line 27: while dq and dq[0] < cutoff
PruneWhile(t) ==
    /\ threads[t].pc = "while"
    /\ threads' = [threads EXCEPT ![t].pc =
           IF /\ ~Empty(threads[t].pdq)
              /\ Head(heap[threads[t].pdq]) < threads[t].now - ttl
           THEN "pop" ELSE "empty"]
    /\ UNCHANGED <<cdata, heap>>
    /\ UNCHANGED <<orchVars, hitsVars, codeVars>>

\* _prune, line 28: dq.popleft(); IndexError on a deque emptied meanwhile.
PrunePop(t) ==
    /\ threads[t].pc = "pop"
    /\ IF Empty(threads[t].pdq)
       THEN /\ threads' = [threads EXCEPT ![t].pc = "done", ![t].ret = Raised]
            /\ UNCHANGED heap
       ELSE /\ heap' = [heap EXCEPT ![threads[t].pdq] = Tail(@)]
            /\ threads' = [threads EXCEPT ![t].pc = "while"]
    /\ UNCHANGED cdata
    /\ UNCHANGED <<orchVars, hitsVars, codeVars>>

\* _prune, line 29: if not dq
PruneEmpty(t) ==
    /\ threads[t].pc = "empty"
    /\ threads' = [threads EXCEPT ![t].pc = IF Empty(threads[t].pdq) THEN "remove" ELSE "len"]
    /\ UNCHANGED <<cdata, heap>>
    /\ UNCHANGED <<orchVars, hitsVars, codeVars>>

\* _prune, line 30: self.data.pop(key, None)
PruneRemove(t) ==
    /\ threads[t].pc = "remove"
    /\ cdata' = Remove(cdata, ConcKey)
    /\ threads' = [threads EXCEPT ![t].pc = "len"]
    /\ UNCHANGED heap
    /\ UNCHANGED <<orchVars, hitsVars, codeVars>>

\* add, line 15: return len(dq); count, line 20: len(self.data.get(key, ()))
Return(t) ==
    /\ threads[t].pc = "len"
    /\ threads' = [threads EXCEPT ![t].pc = "done", ![t].ret =
           IF threads[t].op = "add" THEN Len(heap[threads[t].dq])
           ELSE IF ConcKey \in DOMAIN cdata THEN Len(heap[cdata[ConcKey]]) ELSE 0]
    /\ UNCHANGED <<cdata, heap>>
    /\ UNCHANGED <<orchVars, hitsVars, codeVars>>

NextConc ==
    \/ \E t \in Threads, op \in {"add", "count"}, now \in ConcTimes : Begin(t, op, now)
    \/ \E t \in Threads : AddLookup(t)
    \/ \E t \in Threads : AddAppend(t)
    \/ \E t \in Threads : PruneGet(t)
    \/ \E t \in Threads : PruneTest(t)
    \/ \E t \in Threads : PruneWhile(t)
    \/ \E t \in Threads : PrunePop(t)
    \/ \E t \in Threads : PruneEmpty(t)
    \/ \E t \in Threads : PruneRemove(t)
    \/ \E t \in Threads : Return(t)

\* The storage map as the sequential code sees it.
Storage == [k \in DOMAIN cdata |-> heap[cdata[k]]]

\* The calls of the threads run one after the other, in the given order.
RECURSIVE RunInOrder(_, _, _)
RunInOrder(order, d, rets) ==
    IF order = <<>> THEN [data |-> d, rets |-> rets]
    ELSE LET t == Head(order)
             r == IF threads[t].op = "add"
                  THEN AddF(d, ConcKey, threads[t].now, ttl)
                  ELSE CountF(d, ConcKey, threads[t].now, ttl)
         IN  RunInOrder(Tail(order), r.data, [rets EXCEPT ![t] = r.ret])

Orders == {o \in [Threads -> Threads] : \A i, j \in Threads : i # j => o[i] # o[j]}

\* ============================================================ CodingAgent
\* _create_project, lines 50-57: the substring tests are made on the
\* description as given (it is not lower-cased here).
ProjectType(description) ==
    IF Occurs(<<"p", "y", "t", "h", "o", "n">>, description) THEN "python"
    ELSE IF Occurs(<<"w", "e", "b">>, description) \/ Occurs(<<"h", "t", "m", "l">>, description) THEN "web"
    ELSE IF Occurs(<<"a", "p", "i">>, description) THEN "api"
    ELSE "python"

\* The top-level entries of the project directory that _create_python_project,
\* _create_web_project and _create_api_project write.
ProjectEntries(project_type) ==
    CASE project_type = "python" ->
             {"main.py", "requirements.txt", "README.md", "src", "tests"}
      [] project_type = "web" -> {"index.html", "style.css", "script.js", "README.md"}
      [] project_type = "api" -> {"app.py", "requirements.txt", "README.md"}

\* A value with its Python type: a str or a pathlib.Path.
Str(name, entry) == [type |-> "str", dir |-> name, entry |-> entry]
PathOf(name, entry) == [type |-> "Path", dir |-> name, entry |-> entry]

\* Line 80: list(project_dir.glob("*")), the Path objects of the entries.
Glob(name, entries) == {PathOf(name, e) : e \in entries}

ProjectNames == {"new_project", "demo"}
\* What a project directory may hold before the call.
ExistingEntries == {"a.txt", "README.md"}

ProjectDescriptions ==
    {<<"c", "r", "e", "a", "t", "e", " ", "p", "r", "o", "j", "e", "c", "t", " ", "d", "e", "m", "o">>,
     <<"p", "y", "t", "h", "o", "n", " ", "t", "o", "o", "l">>,
     <<"w", "e", "b", " ", "a", "p", "i">>,
     <<"h", "t", "m", "l", " ", "p", "a", "g", "e">>,
     <<"a", "p", "i", " ", "s", "e", "r", "v", "e", "r">>,
     <<"P", "y", "t", "h", "o", "n", " ", "W", "E", "B", " ", "A", "P", "I">>}

NoOutput ==
    [kind |-> "none", project_name |-> "", project_type |-> "",
     project_path |-> Str("", ""), files_created |-> {}, error |-> ""]

InitCodeIdle ==
    /\ fs = [n \in ProjectNames |-> {}]
    /\ out = NoOutput

InitCode ==
    /\ fs \in [ProjectNames -> SUBSET ExistingEntries]
    /\ out = NoOutput

\* _create_project, lines 46-81: the directory is made, the files of the
\* project type are written and the result lists the directory.
CreateProject(description, name) ==
    LET project_type == ProjectType(description)
        entries == fs[name] \cup ProjectEntries(project_type)
    IN  /\ fs' = [fs EXCEPT ![name] = entries]
        /\ out' = [kind |-> "result", project_name |-> name,
                   project_type |-> project_type, project_path |-> Str(name, ""),
                   files_created |-> Glob(name, entries), error |-> ""]
        /\ UNCHANGED <<orchVars, hitsVars, concVars>>

\* Lines 83-84: mkdir or a write raised; the result is an error record.
CreateProjectFails(description, name) ==
    /\ out' = [NoOutput EXCEPT !.kind = "error", !.error = "Project creation failed"]
    /\ UNCHANGED fs
    /\ UNCHANGED <<orchVars, hitsVars, concVars>>

NextCode ==
    \/ \E d \in ProjectDescriptions, n \in ProjectNames : CreateProject(d, n)
    \/ \E d \in ProjectDescriptions, n \in ProjectNames : CreateProjectFails(d, n)

NextOrch ==
    \/ Start
    \/ Stop
    \/ \E d \in Descriptions : Submit(d)
    \/ Tick
    \/ Status
    \/ \E c \in Callers, d \in Descriptions : ExecuteCommand(c, d)
    \/ \E c \in Callers : CallSelect(c)
    \/ \E c \in Callers : CallLookup(c)
    \/ \E c \in Callers, v \in AgentValues : CallAgentReturns(c, v)
    \/ \E c \in Callers, m \in AgentErrors : CallAgentRaises(c, m)
    \/ \E c \in Callers : CallSinkReturns(c)
    \/ \E c \in Callers, m \in SinkErrors : CallSinkRaises(c, m)
    \/ \E l \in Loops : LoopWake(l)
    \/ \E l \in Loops : LoopIter(l)
    \/ \E l \in Loops : LoopLookup(l)
    \/ \E l \in Loops, v \in AgentValues : LoopAgentReturns(l, v)
    \/ \E l \in Loops, m \in AgentErrors : LoopAgentRaises(l, m)
    \/ \E l \in Loops : LoopSinkReturns(l)
    \/ \E l \in Loops, m \in SinkErrors : LoopSinkRaises(l, m)

\* ========================================================= specifications
InitOrch == \E a \in AgentMaps, m \in BOOLEAN : InitOrchWith(a, m)

\* The orchestrator.
Init == InitOrch /\ InitHits(0) /\ InitConcIdle /\ InitCodeIdle

Next == NextOrch

Spec == Init /\ [][Next]_vars

\* The event loop runs every coroutine that is ready: a coroutine at an
\* await-free position goes on, a sleep ends, and an agent or sink call in
\* progress comes back (returning or raising).
LoopStep(l) ==
    \/ LoopWake(l)
    \/ LoopIter(l)
    \/ LoopLookup(l)
    \/ \E v \in AgentValues : LoopAgentReturns(l, v)
    \/ \E m \in AgentErrors : LoopAgentRaises(l, m)
    \/ LoopSinkReturns(l)
    \/ \E m \in SinkErrors : LoopSinkRaises(l, m)

\* A coroutine that is ready again and again is run: the event loop takes
\* the ready coroutines in turn, so a coroutine whose call has come back is
\* not passed over forever by another one that keeps waking up.
Fairness == \A l \in Loops : SF_vars(LoopStep(l))

\* The background loops with queued submission, start, stop and the clock.
NextLoop ==
    \/ Start
    \/ Stop
    \/ \E d \in Descriptions : Submit(d)
    \/ Tick
    \/ \E l \in Loops : LoopWake(l)
    \/ \E l \in Loops : LoopIter(l)
    \/ \E l \in Loops : LoopLookup(l)
    \/ \E l \in Loops, v \in AgentValues : LoopAgentReturns(l, v)
    \/ \E l \in Loops, m \in AgentErrors : LoopAgentRaises(l, m)
    \/ \E l \in Loops : LoopSinkReturns(l)
    \/ \E l \in Loops, m \in SinkErrors : LoopSinkRaises(l, m)

\* The background loops on a running event loop.
SpecFair == Init /\ [][NextLoop]_vars /\ Fairness

\* execute_command on the descriptions the router is tried on.
InitRoute ==
    /\ \E a \in AgentMaps : InitOrchWith(a, FALSE)
    /\ InitHits(0)
    /\ InitConcIdle
    /\ InitCodeIdle

NextRoute ==
    \/ \E c \in Callers, d \in RouteDescriptions : ExecuteCommand(c, d)
    \/ \E c \in Callers : CallSelect(c)
    \/ \E c \in Callers : CallLookup(c)
    \/ \E c \in Callers, v \in AgentValues : CallAgentReturns(c, v)
    \/ \E c \in Callers, m \in AgentErrors : CallAgentRaises(c, m)

SpecRoute == InitRoute /\ [][NextRoute]_vars

\* CodingAgent._create_project on project directories with some content.
InitCoding == InitOrchWith({}, FALSE) /\ InitHits(0) /\ InitConcIdle /\ InitCode

SpecCoding == InitCoding /\ [][NextCode]_vars

\* TTLHits, called with arbitrary timestamps.
InitTTL == InitOrchWith({}, FALSE) /\ (\E t \in 0..MaxTtl : InitHits(t)) /\ InitConcIdle
           /\ InitCodeIdle

SpecHits == InitTTL /\ [][NextHits]_vars

\* TTLHits, called with timestamps that never decrease on a key.
SpecHitsMono == InitTTL /\ [][NextHitsMono]_vars

\* check_rate_limit on the module's hits = TTLHits(ttl_seconds=60).
InitRate == InitOrchWith({}, FALSE) /\ InitHits(HitsTtl) /\ InitConcIdle /\ InitCodeIdle

SpecRate == InitRate /\ [][NextRate]_vars

\* TTLHits(ttl_seconds=1) called by threads.
InitThreads == InitOrchWith({}, FALSE) /\ InitHits(1) /\ InitConc /\ InitCodeIdle

SpecConc == InitThreads /\ [][NextConc]_vars

\* ----------------------------------------------------------------- claims
LegalTransitions ==
    {<<"pending", "processing">>, <<"processing", "completed">>,
     <<"processing", "failed">>, <<"pending", "failed">>}

\* C1: a Task's status changes only along pending -> processing ->
\* completed, processing -> failed or pending -> failed; a completed or
\* failed Task never changes its status again.
C1_StatusMonotonic ==
    [][\A o \in DOMAIN obj :
          obj'[o].status # obj[o].status
              => <<obj[o].status, obj'[o].status>> \in LegalTransitions]_vars

StrictlyIncreasing(s) == \A i, j \in 1..Len(s) : i < j => s[i] < s[j]

C3_LoopIsolation ==
    \A l \in Loops :
        /\ (event.kind = "loop" /\ event.n = l /\ event.ev \in {"raise", "noagent", "sinkraise"})
               => /\ loops[l].pc = "iter"
                  /\ loops[l].idx >= 2
                  /\ loops[l].idx <= Len(loops[l].snap) + 1
                  /\ loops[l].snap[loops[l].idx - 1] = event.task
                  /\ obj[event.task].status = "failed"
        /\ loops[l].pc \in {"iter", "assigned", "agent", "sink"}
               => \A j \in 1..Len(loops[l].snap) :
                      j < loops[l].idx => obj[loops[l].snap[j]].status # "pending"
        /\ (loops[l].pc = "dead" /\ event.kind = "loop" /\ event.n = l)
               => event.ev = "exit" /\ ~running

\* C3 witness: in one pass the agent of a task raised and the loop went on
\* to complete a task queued after it.
C3_Witness ==
    \E l \in Loops : \E j, k \in 1..Len(loops[l].snap) :
        /\ j < k /\ k < loops[l].idx
        /\ obj[loops[l].snap[j]].result = Error("boom")
        /\ obj[loops[l].snap[k]].status = "completed"
        /\ Len(loops[l].order) >= 2

\* C4: when an agent's process_task raises, the Task is failed with the
\* structured result {'error': message}; execute_command returns
\* success=False with the error text, and a loop stays alive.
C4_AgentFailureContained ==
    event.ev = "raise" =>
        /\ obj[event.task].status = "failed"
        /\ obj[event.task].result = Error(event.v)
        /\ event.kind = "call" =>
               /\ calls[event.n].pc = "done"
               /\ calls[event.n].ret = Failure(event.v)
        /\ event.kind = "loop" => loops[event.n].pc = "iter"

\* C4 witness: an agent raised on the execute_command path.
C4_Witness ==
    /\ event.ev = "raise" /\ event.kind = "call"
    /\ calls[event.n].ret = Failure("boom")

\* C5: when no agent is available the Task is failed with an error result
\* and execute_command returns an error outcome instead of raising.
C5_NoAgentFails ==
    event.ev = "noagent" =>
        /\ obj[event.task].status = "failed"
        /\ obj[event.task].result.kind = "error"
        /\ event.kind = "call" =>
               /\ calls[event.n].pc = "done"
               /\ calls[event.n].ret.kind = "error"
               /\ ~calls[event.n].ret.success

\* C5 witness: execute_command found no agent for its task.
C5_Witness ==
    /\ event.ev = "noagent" /\ event.kind = "call"
    /\ obj[event.task].assigned_agent \notin agents

\* C6: a task for which no agent can be found never has status processing.
C6_NoAgentNeverProcessing ==
    \A o \in DOMAIN obj :
        SelectAgent(obj[o].description) \notin agents => obj[o].status # "processing"

\* ------------------------------------------------------- claims of TTLHits
HitsOf(key) == SelectSeq(recorded, LAMBDA h : h.key = key)

\* The number of recorded hits of key with now - ttl <= t <= now.
InWindow(key, now) ==
    Len(SelectSeq(recorded, LAMBDA h : h.key = key /\ now - ttl <= h.t /\ h.t <= now))

\* C7: with timestamps that never decrease on a key, add records the hit
\* and returns the number of recorded hits of the key inside
\* [now - ttl, now], a hit exactly ttl old included; count returns that
\* number without recording a hit.
C7_AddReturnsWindowCount ==
    /\ call.op = "add" =>
           /\ recorded # <<>>
           /\ Last(recorded) = [key |-> call.key, t |-> call.now]
           /\ call.ret = InWindow(call.key, call.now)
    /\ call.op = "count" => call.ret = InWindow(call.key, call.now)

\* C7 witness: ttl = 1 and the third add returns 3, counting a hit that is
\* exactly ttl old.
C7_Witness ==
    /\ call.op = "add" /\ ttl = 1 /\ call.ret = 3
    /\ \E i \in 1..Len(recorded) :
           recorded[i].key = call.key /\ recorded[i].t = call.now - ttl

\* C8: between calls no key of the storage map is bound to an empty
\* sequence, and count(k, t) with t more than ttl past every hit of k
\* returns 0 and leaves k absent.
C8_NoEmptyBucket ==
    /\ \A k \in DOMAIN data : data[k] # <<>>
    /\ (/\ call.op = "count"
        /\ \A i \in 1..Len(recorded) :
               recorded[i].key = call.key => recorded[i].t + ttl < call.now)
           => call.ret = 0 /\ call.key \notin DOMAIN data

\* C8 witness: a count pruned the last hits of a key and removed the key.
C8_Witness ==
    /\ call.op = "count" /\ call.before > 0
    /\ call.ret = 0 /\ call.key \notin DOMAIN data

AllDone == \A t \in Threads : threads[t].pc = "done"

\* C9: when concurrent add/count calls on one key have all returned, the
\* storage and the returned counts are those of the calls run in some
\* sequential order, and every recorded hit that no call's cutoff has
\* passed is in storage.
C9_ThreadSafe ==
    AllDone =>
        /\ \E o \in Orders :
               LET r == RunInOrder(o, ConcStart, [t \in Threads |-> 0])
               IN  /\ r.data = Storage
                   /\ \A t \in Threads : r.rets[t] = threads[t].ret
        /\ \A t \in Threads :
               (/\ threads[t].op = "add"
                /\ \A u \in Threads : threads[u].now - ttl <= threads[t].now)
                   => \E i \in 1..Len(Get(Storage, ConcKey)) :
                          Get(Storage, ConcKey)[i] = threads[t].now

AdmittedIn(key, from, to) ==
    Len(SelectSeq(admitted, LAMBDA h : h.key = key /\ from <= h.t /\ h.t <= to))

\* C10: check_rate_limit answers 429 exactly when add returned more than
\* RATE_LIMIT; while all calls of a key lie in one window the first
\* RATE_LIMIT of them pass and the next one is rejected; no window of
\* length ttl holds more than RATE_LIMIT admitted requests of a key.
C10_AdmissionBoundary ==
    /\ call.op = "check" =>
           /\ call.status = 429 <=> call.ret > RATE_LIMIT
           /\ call.status \in {200, 429}
           /\ (\A i \in 1..Len(recorded) :
                   recorded[i].key = call.key => call.now - ttl <= recorded[i].t)
                  => (call.status = 200 <=> Len(HitsOf(call.key)) <= RATE_LIMIT)
    /\ \A i \in 1..Len(admitted) :
           AdmittedIn(admitted[i].key, admitted[i].t, admitted[i].t + ttl) <= RATE_LIMIT

\* C10 witness: the 61st call inside one window gets 429 after 60 passed.
C10_Witness ==
    /\ call.op = "check" /\ call.status = 429 /\ call.ret = RATE_LIMIT + 1
    /\ Len(admitted) = RATE_LIMIT
    /\ Len(recorded) = RATE_LIMIT + 1
\* ------------------------------------------- claims of the task lifecycle
Listed(list) == {list[i] : i \in 1..Len(list)}

Terminal(t) == t.status \in {"completed", "failed"}

\* C11: the housekeeping step removes a Task from the task list only if the
\* Task is completed or failed and at least the retention period old; a
\* Task that is pending or processing is never removed.
C11_PurgeOnlyStaleTerminal ==
    [][\A o \in Listed(tasks) \ Listed(tasks') :
          /\ Terminal(obj[o])
          /\ obj[o].created_at <= clock - Retention]_vars

\* C12: once stop() has been called (and start() not since), a submission
\* fails: no step creates a Task, adds one to the task list or takes an
\* execute_command into its processing.
C12_StoppedRejectsSubmission ==
    [][stopped =>
          /\ Len(obj') = Len(obj)
          /\ Listed(tasks') \subseteq Listed(tasks)
          /\ \A c \in Callers : calls'[c].pc = "created" => calls[c].pc = "created"]_vars

\* The step is a stop() that follows a stop() with no start() in between.
SecondStop == event'.ev = "stop" /\ event'.n = 2 /\ event' # event

\* C13: stop() is idempotent: right after any stop(), also one with no
\* start() before it, the orchestrator is not running; a second stop() in
\* sequence changes nothing of the orchestrator's state; stop() can be
\* called whenever no coroutine is inside an await-free section.
C13_StopIdempotent ==
    /\ [](event.ev = "stop" => ~running /\ stopped)
    /\ [][SecondStop =>
             /\ ~running' /\ running' = running
             /\ UNCHANGED <<tasks, obj, agents, memory, calls, loops, clock, ticks, stopped>>]_vars
    /\ [](AllSuspended => ENABLED Stop)

\* C13 witness: a second stop() in sequence has returned, with a loop alive.
C13_Witness ==
    /\ event.ev = "stop" /\ event.n = 2
    /\ \E l \in Loops : loops[l].pc = "sleep"

LoopsEnded == \A l \in Loops : loops[l].pc \in {"none", "dead"}

\* C14: shutdown never hangs: once stop() has been called, every background
\* loop has ended at some later point unless a start() follows first,
\* whatever tasks are pending, given that the calls in progress come back.
C14_ShutdownTerminates == stopped ~> (LoopsEnded \/ ~stopped)

\* C14 witness: after stop() the loops have ended, leaving a task pending.
C14_Witness ==
    /\ stopped /\ LoopsEnded
    /\ \E l \in Loops : loops[l].pc = "dead"
    /\ \E o \in Listed(tasks) : obj[o].status = "pending"

\* The step is a call of stop().
StopStep == event'.ev = "stop" /\ event' # event

\* C15: stop() changes only the running flag: the task list and every
\* Task's fields are as before the call, so a pending Task stays pending;
\* and an agent call that returns after stop() still completes its Task.
C15_StopFrame ==
    /\ [][StopStep => tasks' = tasks /\ obj' = obj /\ loops' = loops /\ calls' = calls]_vars
    /\ [](event.ev = "return" => obj[event.task].status = "completed"
                                  /\ obj[event.task].result = Value(event.v))

\* C15 witness: the agent call that was in progress at stop() has returned
\* and its Task is completed, while a Task pending at stop() is still pending.
C15_Witness ==
    /\ stopped /\ ~running
    /\ event.ev = "return" /\ obj[event.task].status = "completed"
    /\ \E o \in Listed(tasks) : obj[o].status = "pending"

ActiveLoops == {l \in Loops : loops[l].pc \notin {"none", "dead"}}

\* C16: at most one _task_processing_loop is active at any time.
C16_SingleLoop == Cardinality(ActiveLoops) <= 1

\* C17: Task ids are unique and immutable: two different Task objects never
\* have the same id, also when they were created at the same clock value,
\* and no step changes the id of a Task.
C17_UniqueIds ==
    /\ [](\A o, q \in DOMAIN obj : o # q => obj[o].id # obj[q].id)
    /\ [][\A o \in DOMAIN obj : obj'[o].id = obj[o].id]_vars

\* C18: a pending Task has no assigned agent; the agent is set only in a
\* step in which the Task leaves pending, and once
\* set it never changes.
C18_AssignedAgent ==
    /\ [](\A o \in DOMAIN obj : obj[o].status = "pending" => obj[o].assigned_agent = "")
    /\ [][\A o \in DOMAIN obj :
             /\ obj[o].assigned_agent # "" => obj'[o].assigned_agent = obj[o].assigned_agent
             /\ (obj[o].assigned_agent = "" /\ obj'[o].assigned_agent # "")
                    => obj[o].status = "pending" /\ obj'[o].status # "pending"]_vars

\* C18 witness: a Task has left pending with its agent set.
C18_Witness ==
    \E o \in DOMAIN obj :
        /\ obj[o].status = "processing"
        /\ obj[o].assigned_agent = SelectAgent(obj[o].description)
        /\ \E l \in Loops : loops[l].pc = "agent" /\ LoopTask(l) = o

\* C19: a pending or processing Task has no result; the result of a
\* completed Task is a value returned by an agent and the result of a
\* failed Task is an error record.
C19_ResultAtTerminal ==
    \A o \in DOMAIN obj :
        /\ obj[o].status \in {"pending", "processing"} => obj[o].result = NoResult
        /\ obj[o].status = "completed" =>
               obj[o].result.kind = "value" /\ obj[o].result.v \in AgentValues
        /\ obj[o].status = "failed" => obj[o].result.kind = "error"

\* The registered Tasks (positions of the task list) with status st.
Registered(st) == {i \in 1..Len(tasks) : obj[tasks[i]].status = st}

\* C20: get_system_status returns, for the task list at the call, the
\* number of registered Tasks of each status and their total number, and
\* total = pending + processing + completed + failed in every state.
C20_StatusCounts ==
    /\ event.ev = "status" =>
           /\ event.counts.total = Len(tasks)
           /\ event.counts.pending = Cardinality(Registered("pending"))
           /\ event.counts.processing = Cardinality(Registered("processing"))
           /\ event.counts.completed = Cardinality(Registered("completed"))
           /\ event.counts.failed = Cardinality(Registered("failed"))
           /\ event.counts.total = event.counts.pending + event.counts.processing
                                  + event.counts.completed + event.counts.failed
    /\ Len(tasks) = Cardinality(Registered("pending")) + Cardinality(Registered("processing"))
                       + Cardinality(Registered("completed")) + Cardinality(Registered("failed"))

\* C20 witness: a report of two registered Tasks, one completed and one
\* failed.
C20_Witness ==
    /\ event.ev = "status"
    /\ event.counts.total = 2 /\ event.counts.completed = 1 /\ event.counts.failed = 1

\* ---------------------------------------------------- claims of the router
RoutingOrder == <<"coding", "data", "communication", "business", "analytics">>

KeywordsOf(name) ==
    CASE name = "coding" -> CodingKeywords
      [] name = "data" -> DataKeywords
      [] name = "communication" -> CommunicationKeywords
      [] name = "business" -> BusinessKeywords
      [] name = "analytics" -> AnalyticsKeywords

\* The positions of RoutingOrder one of whose keywords occurs in the
\* lower-cased description.
Matching(description) ==
    {i \in 1..Len(RoutingOrder) :
        HasKeyword(ToLower(description), KeywordsOf(RoutingOrder[i]))}

FirstMatch(description) ==
    LET M == Matching(description)
    IN  IF M = {} THEN "orchestrator"
        ELSE RoutingOrder[CHOOSE i \in M : \A j \in M : i <= j]

\* C21: the agent a Task is assigned is the first of coding, data,
\* communication, business, analytics one of whose keywords occurs in the
\* lower-cased description, and 'orchestrator' when none does; two Tasks
\* with the same description are assigned the same agent.
C21_FirstMatchRouting ==
    /\ \A o \in DOMAIN obj :
           obj[o].status # "pending" => obj[o].assigned_agent = FirstMatch(obj[o].description)
    /\ \A o, q \in DOMAIN obj :
           (/\ obj[o].description = obj[q].description
            /\ obj[o].status # "pending" /\ obj[q].status # "pending")
               => obj[o].assigned_agent = obj[q].assigned_agent

\* C21 witness: "sales data" went to data, the earlier of its two matches,
\* and "decoded", with a keyword inside a longer word, went to coding.
C21_Witness ==
    /\ \E o \in DOMAIN obj :
           /\ obj[o].description = <<"s", "a", "l", "e", "s", " ", "d", "a", "t", "a">>
           /\ Matching(obj[o].description) = {2, 4}
           /\ obj[o].assigned_agent = "data"
    /\ \E o \in DOMAIN obj :
           /\ obj[o].description = <<"d", "e", "c", "o", "d", "e", "d">>
           /\ obj[o].assigned_agent = "coding"

\* The agent call of execute_command c has returned normally.
AgentReturned(c) == calls[c].result \in AgentValues \/ calls[c].ret.success

\* C22: when execute_command has returned and its agent call returned
\* normally, the Task is assigned the registered agent its description
\* routes to, is completed with the agent's return value as its result, and
\* execute_command returned success=True with that result and the Task.
C22_SuccessPath ==
    \A c \in Callers :
        (calls[c].pc = "done" /\ AgentReturned(c)) =>
            LET o == calls[c].task
            IN  /\ obj[o].assigned_agent = SelectAgent(obj[o].description)
                /\ obj[o].assigned_agent \in agents
                /\ obj[o].status = "completed"
                /\ obj[o].result.kind = "value"
                /\ obj[o].result.v \in AgentValues
                /\ calls[c].ret = Success(o, obj[o].result.v)

\* The coroutine that works on Task o stands in the call of store_experience.
InSink(cs, ls, o) ==
    \/ \E c \in Callers : cs[c].pc = "sink" /\ cs[c].task = o
    \/ \E l \in Loops : ls[l].pc = "sink" /\ ls[l].snap[ls[l].idx] = o

\* C23: with a memory service configured, every step in which a Task
\* becomes completed or failed is followed by the call of store_experience
\* for that Task.
C23_SinkAfterTerminal ==
    [][memory =>
          \A o \in DOMAIN obj :
              (~Terminal(obj[o]) /\ Terminal(obj'[o])) => InSink(calls', loops', o)]_vars

\* ------------------------------------------------ more claims of TTLHits
\* s is t without some prefix of t.
IsSuffix(s, t) == Len(s) <= Len(t) /\ s = SubSeq(t, Len(t) - Len(s) + 1, Len(t))

\* C24: count(key, now) leaves of the key's stored sequence what remains
\* after dropping the leading hits older than now - ttl, returns the length
\* of that, records no hit, and leaves an absent key absent.
C24_CountFrame ==
    [][call'.op = "count" =>
          LET k == call'.key
              old == Get(data, k)
              new == Get(data', k)
              dropped == Len(old) - Len(new)
          IN  /\ IsSuffix(new, old)
              /\ \A i \in 1..dropped : old[i] < call'.now - ttl
              /\ new # <<>> => new[1] >= call'.now - ttl
              /\ call'.ret = Len(new)
              /\ recorded' = recorded
              /\ k \notin DOMAIN data => k \notin DOMAIN data'
              /\ k \in DOMAIN data' => data'[k] # <<>>]_vars

\* C24 witness: a count dropped one expired hit of two and returned 1.
C24_Witness ==
    /\ call.op = "count" /\ call.before = 2 /\ call.ret = 1
    /\ Len(Get(data, call.key)) = 1

NonDecreasing(s) == \A i, j \in 1..Len(s) : i < j => s[i] <= s[j]

\* C25: after any sequence of add and count calls with arbitrary
\* timestamps, the stored sequence of every key is ordered oldest first, and
\* after a call on a key no hit older than the call's cutoff is left in the
\* key's sequence.
C25_StoredOldestFirst ==
    /\ \A k \in DOMAIN data : NonDecreasing(data[k])
    /\ call.op \in {"add", "count"} =>
           \A i \in 1..Len(Get(data, call.key)) :
               Get(data, call.key)[i] >= call.now - ttl

\* ------------------------------------------------- claims of CodingAgent
\* C26: the files_created of a _create_project result holds only strings.
C26_FilesCreatedAreStrings ==
    out.kind = "result" => \A p \in out.files_created : p.type = "str"

\* ------------------------------------------- more claims of the lifecycle
\* The agent invocations made by the loops: <<loop, position in its order>>.
Invocations == {<<l, i>> : l \in Loops, i \in 1..MaxTasks} \cap
               {x \in Loops \X (1..MaxTasks) : x[2] <= Len(loops[x[1]].order)}

\* C27: no Task is executed twice: the loops invoke an agent at most once per
\* Task, never for the Task of an execute_command, and only a pending Task
\* is taken into processing.
C27_AtMostOnce ==
    /\ [](\A x, y \in Invocations :
             x # y => loops[x[1]].order[x[2]] # loops[y[1]].order[y[2]])
    /\ [](\A x \in Invocations, c \in Callers :
             calls[c].pc # "idle" => loops[x[1]].order[x[2]] # calls[c].task)
    /\ [][\A o \in DOMAIN obj :
             (obj'[o].status = "processing" /\ obj[o].status # "processing")
                 => obj[o].status = "pending"]_vars

\* C28: a call on key k changes only the bucket of k: the stored sequence of
\* every other key, expired hits included, is as before the call.
C28_OtherKeysUntouched ==
    [][\A k \in Keys :
          k # call'.key =>
              /\ (k \in DOMAIN data') = (k \in DOMAIN data)
              /\ Get(data', k) = Get(data, k)]_vars

\* C28 witness: after a call on one key at time now, an expired hit of the
\* other key is still in storage.
C28_Witness ==
    /\ call.op \in {"add", "count"}
    /\ \E k \in DOMAIN data : k # call.key /\ data[k][1] < call.now - ttl

\* Task o is in the task list with status pending.
Waiting(o) == o \in DOMAIN obj /\ o \in Listed(tasks) /\ obj[o].status = "pending"

\* Task o has been dealt with: it is completed or failed, or was removed
\* from the task list.
Settled(o) == o \in DOMAIN obj /\ (Terminal(obj[o]) \/ o \notin Listed(tasks))

\* C29: while the orchestrator runs, with the coroutines scheduled fairly
\* and every call in progress coming back, a Task that is pending in the
\* task list is completed, failed or removed from the list at some later
\* point (unless the orchestrator is stopped first).
C29_PendingIsProcessed ==
    \A o \in 1..MaxTasks : (Waiting(o) /\ running) ~> (Settled(o) \/ ~running)

\* C29 witness: a Task queued while the loop was awaiting the agent of an
\* earlier Task has been completed by the loop, the orchestrator running.
C29_Witness ==
    /\ running /\ ~stopped
    /\ \E l \in Loops :
           /\ Len(loops[l].order) = 2
           /\ obj[loops[l].order[2]].status = "completed"
           /\ loops[l].snap = <<loops[l].order[2]>>

\* C30: check_rate_limit records the hit before it compares: a request of
\* key k at time t passes exactly when the requests of k made in
\* [t - ttl, t], passed or rejected and this one included, number at most
\* RATE_LIMIT; rejected requests are in storage like the others, and a
\* request that follows RATE_LIMIT or more requests of its key in its window
\* is rejected.
C30_RejectedOccupyWindow ==
    call.op = "check" =>
        /\ call.status = 200 <=> InWindow(call.key, call.now) <= RATE_LIMIT
        /\ Len(Get(data, call.key)) = InWindow(call.key, call.now)
        /\ InWindow(call.key, call.now) - 1 >= RATE_LIMIT => call.status = 429

\* C30 witness: a request is rejected although fewer than RATE_LIMIT passed
\* requests of its key lie in its window: the rejected ones fill it.
C30_Witness ==
    /\ call.op = "check" /\ call.status = 429
    /\ AdmittedIn(call.key, call.now - ttl, call.now) < RATE_LIMIT
    /\ InWindow(call.key, call.now) = RATE_LIMIT + 1
====
